---- MODULE Spec2Model ----
(***************************************************************************)
(* Benedict local voice dictation: the session document (SessionManager), *)
(* the prompt pipeline (TextProcessor), the dictation loop (main), the     *)
(* transcriber against its engine thread, two sessions on one folder, and  *)
(* the document editor (DocumentEditor).                                   *)
(* Text is a sequence of one-character strings. A file is the sequence of  *)
(* the lines and blocks written to it, each a record [k, tm, t]: the title *)
(* is written line by line, an entry and a summary text as one block. The  *)
(* file system maps the paths that exist to their content.                 *)
(***************************************************************************)
EXTENDS Integers, Sequences, FiniteSets, TLC

VARIABLES
    session,      \* the SessionManager object: transcriptions, title, filepath
    fs,           \* the output directory: path -> file content
    now,          \* wall clock (datetime.now())
    svcLog,       \* completion-service calls made so far, in order
    last,         \* the last call made on the session and how it ended
    finalized,    \* a finalize call has completed on a session with entries
    addLog,       \* one record per add_transcription call, in call order
    nFinalize,    \* finalize calls made
    pc,           \* dictation loop: position of main()
    cfg,          \* dictation loop: parsed arguments (mode, no_copy, no_session)
    raw_text,     \* dictation loop: result of the last record()
    processed_text, \* dictation loop: text accumulated from process_stream
    clipboard,    \* dictation loop: what pyperclip.copy received last
    events,       \* dictation loop: calls on the components, in order
    cycles,       \* dictation loop: hotkey waits completed
    recorded,     \* dictation loop: non-empty utterances record() returned
    exc,          \* dictation loop: the exception that ended the while loop
    fin,          \* dictation loop: the steps of the finally block still to run
    tp,           \* prompt pipeline: one process / process_stream experiment
    tr,           \* transcriber: the Transcriber object and its caller's position
    eng,          \* transcriber: the engine and its realtime thread
    shown,        \* transcriber: what the live-update callback was handed
    other,        \* a second SessionManager object on the same directory
    ed            \* document editor: the files it works on and its last call

vars == <<session, fs, now, svcLog, last, finalized, addLog, nFinalize, pc, cfg, raw_text,
          processed_text, clipboard, events, cycles, recorded, exc, fin, tp,
          tr, eng,
          shown, other, ed>>

sessionVars == <<session, fs, now, svcLog, last, finalized, addLog, nFinalize>>
loopVars == <<pc, cfg, raw_text, processed_text, clipboard, events, cycles,
              recorded, exc, fin>>
trVars == <<tr, eng, shown>>
restVars == <<tr, eng, shown, other, ed>>

-----------------------------------------------------------------------------
(* Bounds of the model *)

MaxCalls == 4         \* calls made on one session document
MaxClock == 3         \* clock ticks told apart
MaxCycles == 2        \* hotkey waits of the dictation loop
MaxChunk == 2         \* characters per chunk of a streamed completion
MaxUtterances == 2    \* record() calls on one transcriber
MaxPartials == 2      \* realtime updates the engine makes per utterance
MaxStops == 2         \* stop() calls on one transcriber
MaxEdits == 2         \* calls made on one document editor

-----------------------------------------------------------------------------
(* Text *)

Whitespace == {" ", "\n", "\t"}

WordChars ==
    {"a","b","c","d","e","f","g","h","i","j","k","l","m","n","o","p","q","r",
     "s","t","u","v","w","x","y","z","A","B","C","D","E","F","G","H","I","J",
     "K","L","M","N","O","P","Q","R","S","T","U","V","W","X","Y","Z","0","1",
     "2","3","4","5","6","7","8","9","_"}

None == <<"None">>      \* Python's None, where a text is optional

Min(a, b) == IF a < b THEN a ELSE b

Take(s, n) == SubSeq(s, 1, Min(n, Len(s)))

RECURSIVE LStrip(_)
LStrip(s) ==
    IF s # <<>> /\ Head(s) \in Whitespace THEN LStrip(Tail(s)) ELSE s

RECURSIVE RStrip(_)
RStrip(s) ==
    IF s # <<>> /\ s[Len(s)] \in Whitespace
    THEN RStrip(SubSeq(s, 1, Len(s) - 1))
    ELSE s

\* str.strip()
Strip(s) == RStrip(LStrip(s))

\* re.sub(r'[^\w\s-]', '', s)
Sanitize(s) == SelectSeq(s, LAMBDA c : c \in WordChars \cup Whitespace \cup {"-"})

\* s.replace(' ', '_')
ReplaceSpaces(s) == [i \in 1..Len(s) |-> IF s[i] = " " THEN "_" ELSE s[i]]

\* x or y
Or(x, y) == IF x # None /\ x # <<>> THEN x ELSE y

\* the lines of a text: s.split("\n")
RECURSIVE SplitLines(_)
SplitLines(s) ==
    IF \E i \in 1..Len(s) : s[i] = "\n"
    THEN LET i == CHOOSE j \in 1..Len(s) :
                      s[j] = "\n" /\ \A k \in 1..(j - 1) : s[k] # "\n"
         IN  <<SubSeq(s, 1, i - 1)>> \o SplitLines(SubSeq(s, i + 1, Len(s)))
    ELSE <<s>>

\* sep.join(ss)
RECURSIVE Join(_, _)
Join(ss, sep) ==
    IF ss = <<>> THEN <<>>
    ELSE IF Len(ss) = 1 THEN Head(ss)
    ELSE Head(ss) \o sep \o Join(Tail(ss), sep)

RECURSIVE Concat(_)
Concat(ss) == IF ss = <<>> THEN <<>> ELSE Head(ss) \o Concat(Tail(ss))

-----------------------------------------------------------------------------
(* Files *)

Line(k, tm, t) == [k |-> k, tm |-> tm, t |-> t]
Blank == Line("blank", 0, <<>>)
Sep == Line("sep", 0, <<>>)

\* the lines written for "# <title>": a title holding line breaks spans lines
HashLines(title) ==
    LET segs == SplitLines(title)
    IN  [i \in 1..Len(segs) |->
            IF i = 1 THEN Line("hash", 0, segs[1]) ELSE Line("text", 0, segs[i])]

TitleMax == 50
SafeTitleMax == 30
TitleSeedLen == 200

UntitledSession ==
    <<"U","n","t","i","t","l","e","d"," ","S","e","s","s","i","o","n">>

ProvisionalName == <<"s","e","s","s","i","o","n">>

\* os.path.join(output_dir, f"{timestamp}_{name}.md")
Path(stamp, name) == <<stamp, name>>

\* the session file's header, as _create_session_file writes it
Header(title, start) ==
    HashLines(title) \o
    <<Blank, Line("started", start, <<>>), Blank, Sep, Blank,
      Line("rawhdr", 0, <<>>), Blank>>

\* open(path, "w").write(content)
WriteFile(f, path, content) ==
    [p \in DOMAIN f \cup {path} |-> IF p = path THEN content ELSE f[p]]

\* open(path, "a").write(lines)
AppendFile(f, path, lines) ==
    WriteFile(f, path, (IF path \in DOMAIN f THEN f[path] ELSE <<>>) \o lines)

\* os.rename(src, dst), when it succeeds
Rename(f, src, dst) ==
    [p \in (DOMAIN f \ {src}) \cup {dst} |-> IF p = dst THEN f[src] ELSE f[p]]

\* the rewrite keeping the title line alone
ReSubTitle_TitleOnly(content, title) == HashLines(title)

\* re.sub(r'^# .+$', '# <title>', content, count=1, flags=re.MULTILINE)
ReSubTitle(content, title) ==
    LET hits == {i \in 1..Len(content) :
                    content[i].k = "hash" /\ Len(content[i].t) >= 1}
    IN  IF hits = {} THEN content
        ELSE LET i == CHOOSE j \in hits : \A k \in hits : j <= k
             IN  SubSeq(content, 1, i - 1) \o HashLines(title)
                   \o SubSeq(content, i + 1, Len(content))

-----------------------------------------------------------------------------
(* The completion service and the I/O faults, as inputs of a call *)

ServiceError == <<"ServiceError">>   \* the completion service raised

Call(kind, arg) == [kind |-> kind, arg |-> arg]

Result(s, f, raised, calls) ==
    [s |-> s, fs |-> f, raised |-> raised, calls |-> calls]

-----------------------------------------------------------------------------
(* SessionManager *)

\* __init__ and _create_session_file
NewSession(start) ==
    [transcriptions |-> <<>>,
     title |-> UntitledSession,
     filepath |-> Path(start, ProvisionalName),
     session_start |-> start]

CreateSessionFile(f, s) ==
    WriteFile(f, s.filepath, Header(s.title, s.session_start))

\* _update_file_title with self.filepath assigned before os.rename is tried
UpdateFileTitle_PathFirst(s, f, io) ==
    LET content == ReSubTitle(f[s.filepath], s.title)
        safe_title == Take(ReplaceSpaces(Sanitize(s.title)), SafeTitleMax)
        new_filepath == Path(s.session_start, safe_title)
    IN  IF io.hdr # "none"
        THEN Result(s, f, "IOError", <<>>)
        ELSE LET f1 == WriteFile(f, s.filepath, content)
             IN  Result([s EXCEPT !.filepath = new_filepath],
                        IF io.rename THEN f1
                        ELSE Rename(f1, s.filepath, new_filepath),
                        "none", <<>>)

\* _update_file_title: ends by raising when the header cannot be read or
\* rewritten; a failing os.rename is passed over
UpdateFileTitle(s, f, io) ==
    LET content == ReSubTitle(f[s.filepath], s.title)
        safe_title == Take(ReplaceSpaces(Sanitize(s.title)), SafeTitleMax)
        new_filepath == Path(s.session_start, safe_title)
    IN  CASE io.hdr = "read" -> Result(s, f, "IOError", <<>>)
          [] io.hdr = "open" -> Result(s, f, "IOError", <<>>)
          [] io.hdr = "write" ->
                Result(s, WriteFile(f, s.filepath, <<>>), "IOError", <<>>)
          [] OTHER ->
                LET f1 == WriteFile(f, s.filepath, content)
                IN  IF io.rename
                    THEN Result(s, f1, "none", <<>>)
                    ELSE Result([s EXCEPT !.filepath = new_filepath],
                                Rename(f1, s.filepath, new_filepath),
                                "none", <<>>)

\* _generate_title without its except clause
GenerateTitle_Uncaught(s, f, first_text, svc, io) ==
    LET calls == <<Call("title", Take(first_text, TitleSeedLen))>>
    IN  IF svc = ServiceError
        THEN Result(s, f, "ServiceError", calls)
        ELSE LET s1 == [s EXCEPT !.title = Take(Sanitize(Strip(svc)), TitleMax)]
                 r == UpdateFileTitle(s1, f, io)
             IN  Result(r.s, r.fs, r.raised, calls)

\* _generate_title: every exception raised inside is caught and printed
GenerateTitle(s, f, first_text, svc, io) ==
    LET calls == <<Call("title", Take(first_text, TitleSeedLen))>>
    IN  IF svc = ServiceError
        THEN Result(s, f, "none", calls)
        ELSE LET s1 == [s EXCEPT !.title = Take(Sanitize(Strip(svc)), TitleMax)]
                 r == UpdateFileTitle(s1, f, io)
             IN  Result(r.s, r.fs, "none", calls)

\* the title step guarded by the title still being the placeholder
IsFirstTranscription_Untitled(s) == s.title = UntitledSession

\* the guard of add_transcription's title step
IsFirstTranscription(s) == Len(s.transcriptions) = 1

\* add_transcription with the title step run before the block is written to
\* the path the session had on entry
AddTranscription_TitleFirst(s, f, text, cleaned_text, tm, svc, io) ==
    LET entry == Or(cleaned_text, text)
        s1 == [s EXCEPT !.transcriptions =
                  Append(@, [time |-> tm, raw |-> text,
                             cleaned |-> Or(cleaned_text, text)])]
        r == IF IsFirstTranscription(s1)
             THEN GenerateTitle(s1, f, entry, svc, io)
             ELSE Result(s1, f, "none", <<>>)
    IN  IF io.append
        THEN Result(r.s, r.fs, "IOError", r.calls)
        ELSE Result(r.s,
                    AppendFile(r.fs, s1.filepath, <<Line("entry", tm, entry), Blank>>),
                    "none", r.calls)

\* add_transcription(text, cleaned_text)
AddTranscription(s, f, text, cleaned_text, tm, svc, io) ==
    LET entry == Or(cleaned_text, text)
        s1 == [s EXCEPT !.transcriptions =
                  Append(@, [time |-> tm, raw |-> text,
                             cleaned |-> Or(cleaned_text, text)])]
    IN  IF io.append
        THEN Result(s1, f, "IOError", <<>>)
        ELSE LET f1 == AppendFile(f, s1.filepath,
                                  <<Line("entry", tm, entry), Blank>>)
             IN  IF IsFirstTranscription(s1)
                 THEN GenerateTitle(s1, f1, entry, svc, io)
                 ELSE Result(s1, f1, "none", <<>>)

\* all_text: the cleaned texts joined by line breaks
AllText(s) ==
    Join([i \in 1..Len(s.transcriptions) |-> s.transcriptions[i].cleaned],
         <<"\n">>)

\* all_text built from the raw texts
AllTextBlocks_Raw(s) ==
    [i \in 1..Len(s.transcriptions) |->
        Line("body", 0, s.transcriptions[i].raw)]

\* all_text as written to the file: one block per cleaned text
AllTextBlocks(s) ==
    [i \in 1..Len(s.transcriptions) |->
        Line("body", 0, s.transcriptions[i].cleaned)]

\* finalize without the try around the organize call: the exception leaves
\* the with block after the section header was written
Finalize_OrganizeUncaught(s, f, organize, tm, svc, io) ==
    IF s.transcriptions = <<>>
    THEN Result(s, f, "none", <<>>)
    ELSE IF io.append
    THEN Result(s, f, "IOError", <<>>)
    ELSE LET head == <<Blank, Sep, Blank, Line("sumhdr", 0, <<>>), Blank>>
             body == IF organize
                     THEN <<Line("organized", 0, Strip(svc))>>
                     ELSE AllTextBlocks(s)
             foot == <<Blank, Sep, Blank, Line("footer", tm, <<>>)>>
         IN  IF organize /\ svc = ServiceError
             THEN Result(s, AppendFile(f, s.filepath, head), "ServiceError",
                         <<Call("organize", AllText(s))>>)
             ELSE Result(s, AppendFile(f, s.filepath, head \o body \o foot),
                         "none",
                         IF organize THEN <<Call("organize", AllText(s))>> ELSE <<>>)

\* finalize without the check for an empty session
Finalize_NoEmptyCheck(s, f, organize, tm, svc, io) ==
    IF io.append
    THEN Result(s, f, "IOError", <<>>)
    ELSE LET head == <<Blank, Sep, Blank, Line("sumhdr", 0, <<>>), Blank>>
             body == IF organize
                     THEN IF svc = ServiceError
                          THEN <<Line("failed", 0, <<>>), Blank>> \o AllTextBlocks(s)
                          ELSE <<Line("organized", 0, Strip(svc))>>
                     ELSE AllTextBlocks(s)
             foot == <<Blank, Sep, Blank, Line("footer", tm, <<>>)>>
         IN  Result(s, AppendFile(f, s.filepath, head \o body \o foot), "none",
                    IF organize THEN <<Call("organize", AllText(s))>> ELSE <<>>)

\* finalize(organize)
Finalize(s, f, organize, tm, svc, io) ==
    IF s.transcriptions = <<>>
    THEN Result(s, f, "none", <<>>)
    ELSE IF io.append
    THEN Result(s, f, "IOError", <<>>)
    ELSE LET head == <<Blank, Sep, Blank, Line("sumhdr", 0, <<>>), Blank>>
             body == IF organize
                     THEN IF svc = ServiceError
                          THEN <<Line("failed", 0, <<>>), Blank>> \o AllTextBlocks(s)
                          ELSE <<Line("organized", 0, Strip(svc))>>
                     ELSE AllTextBlocks(s)
             foot == <<Blank, Sep, Blank, Line("footer", tm, <<>>)>>
         IN  Result(s, AppendFile(f, s.filepath, head \o body \o foot), "none",
                    IF organize THEN <<Call("organize", AllText(s))>> ELSE <<>>)

-----------------------------------------------------------------------------
(* Inputs *)

LongTitleLen == 52

\* the (text, cleaned_text) arguments of add_transcription
EntryInputs ==
    { <<(<<"u","m"," ","h","i">>), (<<"H","i",".">>)>>,
      <<(<<"h","i">>), None>> }

\* what the completion service can return for the title prompt
TitleOutputs ==
    { <<"G","r","e","e","t","i","n","g"," ","N","o","t","e">>,
      <<"s","e","s","s","i","o","n">>,
      <<"N","o","t","e","s","\n","H","i">>,
      <<" ","\"","H","i","!","\"","\n">>,
      <<"?","!">>,
      [i \in 1..LongTitleLen |-> IF i % 7 = 0 THEN " " ELSE "x"] }

\* what the completion service can return for the organize prompt
OrganizeOutputs == { <<"\n","H","i",".","\n">> }

HeaderFaults == {"none", "read", "open", "write"}

\* the faults a call can meet: the title step's faults only where it runs
Faults(withTitle) ==
    IF withTitle
    THEN [append : BOOLEAN, hdr : HeaderFaults, rename : BOOLEAN]
    ELSE [append : BOOLEAN, hdr : {"none"}, rename : {FALSE}]

\* the clock at the next call
Tick == Min(now + 1, MaxClock)

-----------------------------------------------------------------------------
(* One session document under any sequence of calls *)

NoCall ==
    [op |-> "none", raised |-> "none", titleRan |-> FALSE, svcFailed |-> FALSE,
     renameFailed |-> FALSE, titleUpdated |-> FALSE, appendFault |-> FALSE,
     hdrFailed |-> FALSE, hdrFault |-> "none", nSvc |-> 0,
     organize |-> FALSE, pre |-> [s |-> NewSession(0), fs |-> <<>>,
                                 finalized |-> FALSE]]

\* the record of one add_transcription call
AddRecord(r, svc, io) ==
    LET ran == r.calls # <<>>
        svcOk == ran /\ svc # ServiceError
    IN  [op |-> "add", raised |-> r.raised, titleRan |-> ran,
         svcFailed |-> ran /\ svc = ServiceError,
         renameFailed |-> svcOk /\ io.hdr = "none" /\ io.rename,
         titleUpdated |-> svcOk /\ io.hdr = "none" /\ ~io.rename,
         appendFault |-> io.append,
         hdrFailed |-> svcOk /\ io.hdr # "none",
         hdrFault |-> IF svcOk THEN io.hdr ELSE "none",
         nSvc |-> Len(r.calls),
         organize |-> FALSE,
         pre |-> [s |-> session, fs |-> fs, finalized |-> finalized]]

InitSessionVars ==
    /\ now = 0
    /\ session = NewSession(0)
    /\ fs = CreateSessionFile(<<>>, NewSession(0))
    /\ svcLog = <<>>
    /\ last = NoCall
    /\ finalized = FALSE
    /\ addLog = <<>>
    /\ nFinalize = 0

\* session.add_transcription(text, cleaned_text)
CallAdd(text, cleaned_text, tm, svc, io) ==
    LET r == AddTranscription(session, fs, text, cleaned_text, tm, svc, io)
    IN  /\ session' = r.s
        /\ fs' = r.fs
        /\ now' = tm
        /\ svcLog' = svcLog \o r.calls
        /\ last' = AddRecord(r, svc, io)
        /\ addLog' = Append(addLog, [raised |-> r.raised,
                                     inferred |-> Len(r.calls),
                                     renameFailed |-> AddRecord(r, svc, io).renameFailed,
                                     svcFailed |-> r.calls # <<>> /\ svc = ServiceError])
        /\ UNCHANGED <<finalized, nFinalize>>

\* session.finalize(organize)
CallFinalize(organize, tm, svc, io) ==
    LET r == Finalize(session, fs, organize, tm, svc, io)
    IN  /\ session' = r.s
        /\ fs' = r.fs
        /\ now' = tm
        /\ svcLog' = svcLog \o r.calls
        /\ last' = [NoCall EXCEPT !.op = "finalize", !.raised = r.raised,
                                  !.svcFailed = r.calls # <<>> /\ svc = ServiceError,
                                  !.appendFault = io.append,
                                  !.nSvc = Len(r.calls),
                                  !.organize = organize,
                                  !.pre = [s |-> session, fs |-> fs,
                                           finalized |-> finalized]]
        /\ finalized' = (finalized \/
                            (r.raised = "none" /\ session.transcriptions # <<>>))
        /\ nFinalize' = nFinalize + 1
        /\ UNCHANGED addLog

LoopIdle ==
    /\ pc = "off" /\ cfg = [mode |-> "raw", no_copy |-> TRUE, no_session |-> FALSE]
    /\ raw_text = <<>> /\ processed_text = <<>> /\ clipboard = None
    /\ events = <<>> /\ cycles = 0 /\ recorded = 0
    /\ exc = "none" /\ fin = <<>>

TPIdle == tp = [phase |-> "off"]

\* no DocumentEditor at work
EdIdle == ed = [n |-> 0]

\* no SessionManager object
NoSession == [filepath |-> None]

RestIdle ==
    /\ tr = [recorder |-> FALSE, pc |-> "off"]
    /\ eng = [utt |-> 0] /\ shown = <<>>
    /\ other = NoSession
    /\ EdIdle

Add ==
    /\ Len(addLog) + nFinalize < MaxCalls
    /\ \E e \in EntryInputs,
          svc \in IF session.transcriptions = <<>>
                  THEN TitleOutputs \cup {ServiceError} ELSE {ServiceError},
          io \in Faults(session.transcriptions = <<>>) :
            CallAdd(e[1], e[2], Tick, svc, io)
    /\ UNCHANGED <<loopVars, tp, restVars>>

Finish ==
    /\ Len(addLog) + nFinalize < MaxCalls
    /\ \E organize \in BOOLEAN,
          svc \in OrganizeOutputs \cup {ServiceError},
          io \in Faults(FALSE) :
            /\ (~organize => svc = ServiceError)
            /\ CallFinalize(organize, Tick, svc, io)
    /\ UNCHANGED <<loopVars, tp, restVars>>

Init == InitSessionVars /\ LoopIdle /\ TPIdle /\ RestIdle

Next == Add \/ Finish

Spec == Init /\ [][Next]_vars

-----------------------------------------------------------------------------
(* TextProcessor *)

\* PROMPTS: the template of each mode, None for raw
Prompts ==
    [clean |-> <<"clean template">>, rewrite |-> <<"rewrite template">>,
     bullets |-> <<"bullets template">>, email |-> <<"email template">>,
     raw |-> None]

Modes == {"clean", "rewrite", "bullets", "email", "raw", "organize"}

\* the empty check without the strip
IsEmptyText_OnlyEmpty(text) == text = None \/ text = <<>>

\* not text or not text.strip()
IsEmptyText(text) == text = None \/ text = <<>> \/ Strip(text) = <<>>

\* a bypass for the mode raw alone
IsBypass_RawOnly(mode) == mode = "raw"

\* the bypass: raw, a mode absent from the table, a mode without template
IsBypass(mode) ==
    \/ mode = "raw"
    \/ mode \notin DOMAIN Prompts
    \/ Prompts[mode] = None \/ Prompts[mode] = <<>>

\* the chunks in which the service streams the completion out: n characters
\* each
RECURSIVE Chunks(_, _)
Chunks(out, n) ==
    IF out = <<>> THEN <<>>
    ELSE <<Take(out, n)>> \o Chunks(SubSeq(out, Min(n, Len(out)) + 1, Len(out)), n)

\* the completion service for one prompt: the text it generates, the chunk
\* size it streams with, and after how many chunks it fails (-1: never)
Service(out, size, failAfter) == [out |-> out, size |-> size, failAfter |-> failAfter]

\* process(text, mode)
Process(text, mode, svc) ==
    IF IsEmptyText(text)
    THEN [out |-> <<>>, calls |-> 0, raised |-> "none"]
    ELSE IF IsBypass(mode)
    THEN [out |-> Strip(text), calls |-> 0, raised |-> "none"]
    ELSE IF svc.failAfter >= 0
    THEN [out |-> <<>>, calls |-> 1, raised |-> "ServiceError"]
    ELSE [out |-> Strip(svc.out), calls |-> 1, raised |-> "none"]

\* process_stream(text, mode): the chunks the generator yields, and whether
\* it ends by raising
ProcessStream(text, mode, svc) ==
    IF IsEmptyText(text)
    THEN [chunks |-> <<>>, calls |-> 0, raised |-> "none"]
    ELSE IF IsBypass(mode)
    THEN [chunks |-> <<Strip(text)>>, calls |-> 0, raised |-> "none"]
    ELSE LET all == Chunks(svc.out, svc.size)
         IN  IF svc.failAfter >= 0
             THEN [chunks |-> Take(all, svc.failAfter), calls |-> 1,
                   raised |-> "ServiceError"]
             ELSE [chunks |-> all, calls |-> 1, raised |-> "none"]

\* the texts and completions the pipeline is run on
PipelineTexts == { <<>>, <<" ">>, <<" ","h","i","\n">>, <<"h","i">> }
Completions == { <<"H","i",".">>, <<" ","H","i",".","\n">>, <<"\n","\n">>, <<>> }

InitPipeline ==
    \E text \in PipelineTexts, mode \in Modes, out \in Completions,
       size \in 1..MaxChunk :
        tp = [phase |-> "ready", text |-> text, mode |-> mode,
              svc |-> Service(out, size, -1),
              result |-> None, pending |-> <<>>, yielded |-> <<>>, calls |-> 0,
              scalls |-> 0]

\* result = processor.process(text, mode)
RunProcess ==
    /\ tp.phase = "ready"
    /\ LET r == Process(tp.text, tp.mode, tp.svc)
       IN  tp' = [tp EXCEPT !.phase = "processed", !.result = r.out,
                            !.calls = r.calls]
    /\ UNCHANGED <<sessionVars, loopVars, restVars>>

\* gen = processor.process_stream(text, mode), up to its first yield
StartStream ==
    /\ tp.phase = "processed"
    /\ LET r == ProcessStream(tp.text, tp.mode, tp.svc)
       IN  tp' = [tp EXCEPT !.phase = "streaming", !.pending = r.chunks,
                            !.scalls = r.calls]
    /\ UNCHANGED <<sessionVars, loopVars, restVars>>

\* next(gen): one chunk
NextChunk ==
    /\ tp.phase = "streaming" /\ tp.pending # <<>>
    /\ tp' = [tp EXCEPT !.pending = Tail(@),
                        !.yielded = Append(@, Head(tp.pending))]
    /\ UNCHANGED <<sessionVars, loopVars, restVars>>

\* next(gen): StopIteration
EndStream ==
    /\ tp.phase = "streaming" /\ tp.pending = <<>>
    /\ tp' = [tp EXCEPT !.phase = "streamed"]
    /\ UNCHANGED <<sessionVars, loopVars, restVars>>

InitTP == InitSessionVars /\ LoopIdle /\ InitPipeline /\ RestIdle

NextTP == RunProcess \/ StartStream \/ NextChunk \/ EndStream

SpecTP == InitTP /\ [][NextTP]_vars

-----------------------------------------------------------------------------
(* Transcriber.record, as the dictation loop sees it *)

EngineError == <<"EngineError">>    \* recorder.text() raised

\* what recorder.text() can return
EngineTexts == { <<" ","h","i"," ">>, <<" ">>, <<>> }

\* record(): text.strip() if text else ""
Record(text) == IF text # None /\ text # <<>> THEN Strip(text) ELSE <<>>

-----------------------------------------------------------------------------
(* main(): the dictation loop *)

\* the loop without the check of the recorded text
AfterRecord_NoCheck(raw) == "process"

\* if not raw_text: continue
AfterRecord(raw) == IF raw = <<>> THEN "wait" ELSE "process"

\* the finally block finalizing the session twice
FinallyBlock_FinalizeTwice(hasSession) ==
    IF hasSession THEN <<"finalize", "finalize", "stop">> ELSE <<"stop">>

\* the finally block reversed: the transcriber is stopped first
FinallyBlock_StopFirst(hasSession) ==
    IF hasSession THEN <<"stop", "finalize">> ELSE <<"stop">>

\* the finally block: finalize the session, if there is one, then stop the
\* transcriber
FinallyBlock(hasSession) ==
    IF hasSession THEN <<"finalize", "stop">> ELSE <<"stop">>

LoopPcs == {"wait", "record", "process", "add", "copy"}

\* an exception leaves the while loop for the finally block
Leave(e) ==
    /\ pc' = "finally"
    /\ exc' = e
    /\ fin' = FinallyBlock(~cfg.no_session)

\* what the completion service can do on the loop's title and stream prompts
LoopTitleOutputs ==
    { <<"G","r","e","e","t","i","n","g"," ","N","o","t","e">>, ServiceError }
LoopServices ==
    { Service(<<"H","i",".">>, MaxChunk, -1),
      Service(<<" ","H","i",".","\n">>, MaxChunk, -1),
      Service(<<>>, MaxChunk, -1),
      Service(<<"H","i",".">>, MaxChunk, 0),
      Service(<<"H","i",".">>, MaxChunk, 1) }
LoopFaults == [append : BOOLEAN, hdr : {"none"}, rename : {FALSE}]

InitLoop ==
    /\ cfg \in [mode : {"clean", "raw"}, no_copy : BOOLEAN, no_session : BOOLEAN]
    /\ now = 0
    /\ session = NewSession(0)
    /\ fs = IF cfg.no_session THEN <<>> ELSE CreateSessionFile(<<>>, NewSession(0))
    /\ svcLog = <<>> /\ last = NoCall /\ finalized = FALSE
    /\ addLog = <<>> /\ nFinalize = 0
    /\ pc = "wait" /\ raw_text = <<>> /\ processed_text = <<>>
    /\ clipboard = None /\ events = <<>> /\ cycles = 0 /\ recorded = 0
    /\ exc = "none" /\ fin = <<>>
    /\ TPIdle /\ RestIdle

\* keyboard.wait(args.hotkey)
WaitHotkey ==
    /\ pc = "wait" /\ cycles < MaxCycles
    /\ pc' = "record" /\ cycles' = cycles + 1
    /\ UNCHANGED <<sessionVars, cfg, raw_text, processed_text, clipboard,
                   events, recorded, exc, fin, tp, restVars>>

\* raw_text = transcriber.record(); if not raw_text: continue
RecordUtterance ==
    /\ pc = "record"
    /\ \E text \in EngineTexts \cup {EngineError} :
          IF text = EngineError
          THEN Leave("RuntimeError") /\ UNCHANGED <<raw_text, recorded>>
          ELSE /\ raw_text' = Record(text)
               /\ recorded' = IF Record(text) = <<>> THEN recorded
                                                     ELSE recorded + 1
               /\ pc' = AfterRecord(Record(text))
               /\ UNCHANGED <<exc, fin>>
    /\ UNCHANGED <<sessionVars, cfg, processed_text, clipboard, events,
                   cycles, tp, restVars>>

\* the mode branch: the chunks of process_stream added up, or the raw text
ProcessUtterance ==
    /\ pc = "process"
    /\ IF cfg.mode # "raw"
       THEN \E svc \in LoopServices :
               LET r == ProcessStream(raw_text, cfg.mode, svc)
               IN  /\ processed_text' = Concat(r.chunks)
                   /\ IF r.raised = "none"
                      THEN pc' = "add" /\ UNCHANGED <<exc, fin>>
                      ELSE Leave(r.raised)
       ELSE /\ processed_text' = raw_text
            /\ pc' = "add" /\ UNCHANGED <<exc, fin>>
    /\ UNCHANGED <<sessionVars, cfg, raw_text, clipboard, events, cycles,
                   recorded, tp, restVars>>

\* if session: session.add_transcription(raw_text, processed_text)
AddToSession ==
    /\ pc = "add"
    /\ IF cfg.no_session
       THEN pc' = "copy" /\ UNCHANGED <<sessionVars, exc, fin>>
       ELSE \E svc \in LoopTitleOutputs, io \in LoopFaults :
               /\ CallAdd(raw_text, processed_text, Tick, svc, io)
               /\ IF last'.raised = "none"
                  THEN pc' = "copy" /\ UNCHANGED <<exc, fin>>
                  ELSE Leave(last'.raised)
    /\ UNCHANGED <<cfg, raw_text, processed_text, clipboard, events, cycles,
                   recorded, tp, restVars>>

\* if not args.no_copy: pyperclip.copy(processed_text)
CopyToClipboard ==
    /\ pc = "copy"
    /\ clipboard' = IF cfg.no_copy THEN clipboard ELSE processed_text
    /\ pc' = "wait"
    /\ UNCHANGED <<sessionVars, cfg, raw_text, processed_text, events, cycles,
                   recorded, exc, fin, tp, restVars>>

\* CTRL+C anywhere in the while loop: except KeyboardInterrupt, then finally
Interrupt ==
    /\ pc \in LoopPcs
    /\ Leave("KeyboardInterrupt")
    /\ UNCHANGED <<sessionVars, cfg, raw_text, processed_text, clipboard,
                   events, cycles, recorded, tp, restVars>>

\* finally: if session: session.finalize(organize=True)
FinallyFinalize ==
    /\ pc = "finally" /\ fin # <<>> /\ Head(fin) = "finalize"
    /\ \E svc \in OrganizeOutputs \cup {ServiceError}, io \in LoopFaults :
          /\ CallFinalize(TRUE, Tick, svc, io)
          /\ IF last'.raised = "none"
             THEN /\ events' = events \o <<"finalize called", "finalize returned">>
                  /\ fin' = Tail(fin)
                  /\ pc' = IF Tail(fin) = <<>> THEN "done" ELSE "finally"
             ELSE /\ events' = events \o <<"finalize called">>
                  /\ fin' = <<>>
                  /\ pc' = "done"
    /\ UNCHANGED <<cfg, raw_text, processed_text, clipboard, cycles, recorded,
                   exc, tp, restVars>>

\* finally: transcriber.stop()
StopTranscriber ==
    /\ pc = "finally" /\ fin # <<>> /\ Head(fin) = "stop"
    /\ events' = Append(events, "stop")
    /\ fin' = Tail(fin)
    /\ pc' = IF Tail(fin) = <<>> THEN "done" ELSE "finally"
    /\ UNCHANGED <<sessionVars, cfg, raw_text, processed_text, clipboard,
                   cycles, recorded, exc, tp, restVars>>

NextLoop ==
    \/ WaitHotkey \/ RecordUtterance \/ ProcessUtterance \/ AddToSession
    \/ CopyToClipboard \/ Interrupt \/ FinallyFinalize \/ StopTranscriber

SpecLoop == InitLoop /\ [][NextLoop]_vars

-----------------------------------------------------------------------------
(* Transcriber: the orchestrator's calls against the engine's realtime thread *)

\* what is said in utterance u
UtteranceText(u) == IF u % 2 = 1 THEN <<"h","i">> ELSE <<"y","o">>

\* where the stored text comes from: utterance, update number, and whether
\* record() for that utterance had returned when it was stored
NoPartial == [utt |-> 0, n |-> 0, late |-> FALSE]

\* the realtime thread is not inside the callback
NoCallback == [stage |-> "none", utt |-> 0, n |-> 0, text |-> <<>>]

\* Transcriber(on_live_update=live_display)
InitTranscriber ==
    /\ tr = [recorder |-> FALSE, transcription |-> <<>>, last_displayed |-> <<>>,
             src |-> NoPartial, pc |-> "idle", raised |-> "none", stops |-> 0]
    /\ eng = [utt |-> 0, returned |-> 0, recording |-> FALSE, n |-> 0,
              cb |-> NoCallback, shutdowns |-> 0]
    /\ shown = <<>>

\* transcriber.start()
TrStart ==
    /\ tr.pc = "idle" /\ ~tr.recorder
    /\ tr' = [tr EXCEPT !.recorder = TRUE]
    /\ UNCHANGED <<eng, shown, sessionVars, loopVars, tp, other, ed>>

\* transcriber.record(), up to the blocking recorder.text()
TrRecord ==
    /\ tr.pc = "idle" /\ eng.shutdowns = 0 /\ eng.utt < MaxUtterances
    /\ IF ~tr.recorder
       THEN /\ tr' = [tr EXCEPT !.raised = "RuntimeError"]
            /\ UNCHANGED eng
       ELSE /\ tr' = [tr EXCEPT !.transcription = <<>>, !.last_displayed = <<>>,
                                !.src = NoPartial, !.pc = "recording",
                                !.raised = "none"]
            /\ eng' = [eng EXCEPT !.utt = @ + 1, !.recording = TRUE, !.n = 0]
    /\ UNCHANGED <<shown, sessionVars, loopVars, tp, other, ed>>

\* recorder.text() returns and record() with it
TrRecordReturn ==
    /\ tr.pc = "recording"
    /\ tr' = [tr EXCEPT !.pc = "idle"]
    /\ eng' = [eng EXCEPT !.recording = FALSE, !.returned = eng.utt]
    /\ UNCHANGED <<shown, sessionVars, loopVars, tp, other, ed>>

\* the realtime thread has a new partial and enters _on_transcription
EngineEmit ==
    /\ eng.recording /\ eng.cb = NoCallback /\ eng.n < MaxPartials
    /\ eng' = [eng EXCEPT !.n = @ + 1,
                          !.cb = [stage |-> "store", utt |-> eng.utt,
                                  n |-> eng.n + 1,
                                  text |-> Take(UtteranceText(eng.utt), eng.n + 1)]]
    /\ UNCHANGED <<tr, shown, sessionVars, loopVars, tp, other, ed>>

\* _on_transcription: self._transcription = text
CallbackStore ==
    /\ eng.cb.stage = "store"
    /\ tr' = [tr EXCEPT !.transcription = eng.cb.text,
                        !.src = [utt |-> eng.cb.utt, n |-> eng.cb.n,
                                 late |-> eng.returned >= eng.cb.utt]]
    /\ eng' = [eng EXCEPT !.cb.stage = "display"]
    /\ UNCHANGED <<shown, sessionVars, loopVars, tp, other, ed>>

\* _on_transcription: self._on_live_update(text)
CallbackDisplay ==
    /\ eng.cb.stage = "display"
    /\ shown' = Append(shown, [utt |-> eng.cb.utt, n |-> eng.cb.n,
                               text |-> eng.cb.text,
                               late |-> eng.returned >= eng.cb.utt])
    /\ eng' = [eng EXCEPT !.cb = NoCallback]
    /\ UNCHANGED <<tr, sessionVars, loopVars, tp, other, ed>>

\* transcriber.stop()
TrStop ==
    /\ tr.pc = "idle" /\ tr.stops < MaxStops
    /\ tr' = [tr EXCEPT !.stops = @ + 1]
    /\ eng' = IF tr.recorder THEN [eng EXCEPT !.shutdowns = @ + 1] ELSE eng
    /\ UNCHANGED <<shown, sessionVars, loopVars, tp, other, ed>>

InitTr ==
    /\ InitSessionVars /\ LoopIdle /\ TPIdle /\ other = NoSession /\ EdIdle
    /\ InitTranscriber

NextTr ==
    \/ TrStart \/ TrRecord \/ TrRecordReturn \/ EngineEmit
    \/ CallbackStore \/ CallbackDisplay \/ TrStop

SpecTr == InitTr /\ [][NextTr]_vars

-----------------------------------------------------------------------------
(* Two session documents on one output directory *)

TwoTitleOutputs ==
    { <<"G","r","e","e","t","i","n","g"," ","N","o","t","e">>,
      <<"s","e","s","s","i","o","n">> }

NoFault == [append |-> FALSE, hdr |-> "none", rename |-> FALSE]

\* calls made on the two sessions so far
TwoCalls ==
    Len(session.transcriptions) + nFinalize +
        (IF other = NoSession THEN 0 ELSE 1 + Len(other.transcriptions))

\* a minute passes
TwoTick ==
    /\ now < MaxClock
    /\ now' = now + 1
    /\ UNCHANGED <<session, fs, svcLog, last, finalized, addLog, nFinalize, other,
                   loopVars, tp, trVars, ed>>

\* session = SessionManager(), on the directory of the first
TwoCreate ==
    /\ other = NoSession /\ TwoCalls < MaxCalls
    /\ other' = NewSession(now)
    /\ fs' = CreateSessionFile(fs, NewSession(now))
    /\ UNCHANGED <<session, now, svcLog, last, finalized, addLog, nFinalize,
                   loopVars, tp, trVars, ed>>

\* add_transcription on the first session
TwoAddFirst ==
    /\ TwoCalls < MaxCalls
    /\ \E e \in EntryInputs, svc \in TwoTitleOutputs :
          LET r == AddTranscription(session, fs, e[1], e[2], now, svc, NoFault)
          IN  /\ session' = r.s /\ fs' = r.fs
              /\ svcLog' = svcLog \o r.calls
    /\ UNCHANGED <<now, last, finalized, addLog, nFinalize, other,
                   loopVars, tp, trVars, ed>>

\* add_transcription on the second session
TwoAddSecond ==
    /\ other # NoSession /\ TwoCalls < MaxCalls
    /\ \E e \in EntryInputs, svc \in TwoTitleOutputs :
          LET r == AddTranscription(other, fs, e[1], e[2], now, svc, NoFault)
          IN  /\ other' = r.s /\ fs' = r.fs
              /\ svcLog' = svcLog \o r.calls
    /\ UNCHANGED <<session, now, last, finalized, addLog, nFinalize,
                   loopVars, tp, trVars, ed>>

\* finalize(organize=False) on either session
TwoFinalize ==
    /\ TwoCalls < MaxCalls
    /\ \E first \in BOOLEAN :
          /\ ~first => other # NoSession
          /\ LET r == Finalize(IF first THEN session ELSE other, fs, FALSE, now,
                               ServiceError, NoFault)
             IN  fs' = r.fs
    /\ nFinalize' = nFinalize + 1
    /\ UNCHANGED <<session, now, svcLog, last, finalized, addLog, other,
                   loopVars, tp, trVars, ed>>

InitTwo ==
    /\ InitSessionVars /\ LoopIdle /\ TPIdle
    /\ tr = [recorder |-> FALSE, pc |-> "off"] /\ eng = [utt |-> 0]
    /\ shown = <<>> /\ other = NoSession /\ EdIdle

NextTwo ==
    TwoTick \/ TwoCreate \/ TwoAddFirst \/ TwoAddSecond \/ TwoFinalize

SpecTwo == InitTwo /\ [][NextTwo]_vars

-----------------------------------------------------------------------------
(* DocumentEditor: edit on a string and edit_file on a file *)

\* the keys of EDIT_PROMPTS
EditPrompts == {"organize", "professional", "summarize", "action_items"}

\* edit_document(state): the node of the graph
EditDocument(content, mode, svc) ==
    IF mode \notin EditPrompts
    THEN [result |-> content, calls |-> 0, raised |-> "none"]
    ELSE IF svc = ServiceError
    THEN [result |-> None, calls |-> 1, raised |-> "ServiceError"]
    ELSE [result |-> Strip(svc), calls |-> 1, raised |-> "none"]

\* edit(content, mode): the graph run on the content, its result handed back
Edit(content, mode, svc) == EditDocument(content, mode, svc)

\* f"{filepath}.backup"
BackupPath(filepath) == Append(filepath, "backup")

\* the two lines written before the edited text
EditHeader(tm, mode) ==
    <<"# Document edited: ", ToString(tm), "\n", "# Edit mode: ", mode, "\n", "\n">>

\* one open(path, "w").write(content) of a call
FileWrite(path, content) == [path |-> path, content |-> content]

\* edit_file(filepath, mode, output_path, backup)
EditFile(files, filepath, mode, output_path, backup, svc, tm) ==
    IF filepath \notin DOMAIN files
    THEN [files |-> files, out |-> None, calls |-> 0, raised |-> "IOError",
          writes |-> <<>>]
    ELSE LET content == files[filepath]
             doBackup == backup /\ (output_path = None \/ output_path = <<>>)
             f1 == IF doBackup
                   THEN WriteFile(files, BackupPath(filepath), content)
                   ELSE files
             w1 == IF doBackup
                   THEN <<FileWrite(BackupPath(filepath), content)>> ELSE <<>>
             r == Edit(content, mode, svc)
             save_path == Or(output_path, filepath)
             saved == EditHeader(tm, mode) \o r.result
         IN  IF Strip(content) = <<>>
             THEN [files |-> files, out |-> <<>>, calls |-> 0, raised |-> "none",
                   writes |-> <<>>]
             ELSE IF r.raised # "none"
             THEN [files |-> f1, out |-> None, calls |-> r.calls,
                   raised |-> r.raised, writes |-> w1]
             ELSE [files |-> WriteFile(f1, save_path, saved), out |-> r.result,
                   calls |-> r.calls, raised |-> "none",
                   writes |-> Append(w1, FileWrite(save_path, saved))]

\* the documents, modes, paths and completions the editor is run on
EdContents == { <<>>, <<" ","\n">>, <<"t","o"," ","d","o">> }
EdModes == {"organize", "summarize", "shorten"}
EdPaths == { <<"doc">>, <<"out">> }
EdServices == { <<" ","D","o","n","e",".","\n">>, ServiceError }

NoEdit ==
    [op |-> "none", content |-> <<>>, mode |-> "organize", filepath |-> None,
     output_path |-> None, backup |-> FALSE, calls |-> 0, raised |-> "none",
     out |-> None, writes |-> <<>>]

InitEditor ==
    \E content \in EdContents :
        ed = [n |-> 0, files |-> [p \in {<<"doc">>} |-> content],
              pre |-> [p \in {<<"doc">>} |-> content], last |-> NoEdit]

\* editor.edit(content, mode)
EdEdit ==
    /\ ed.n < MaxEdits
    /\ \E content \in EdContents, mode \in EdModes, svc \in EdServices :
          LET r == Edit(content, mode, svc)
          IN  ed' = [n |-> ed.n + 1, files |-> ed.files, pre |-> ed.files,
                     last |-> [NoEdit EXCEPT !.op = "edit", !.content = content,
                                             !.mode = mode, !.calls = r.calls,
                                             !.raised = r.raised,
                                             !.out = r.result]]
    /\ UNCHANGED <<sessionVars, loopVars, tp, trVars, other>>

\* editor.edit_file(filepath, mode, output_path, backup)
EdEditFile ==
    /\ ed.n < MaxEdits
    /\ \E filepath \in EdPaths, mode \in EdModes,
          output_path \in EdPaths \cup {None}, backup \in BOOLEAN,
          svc \in EdServices :
          LET r == EditFile(ed.files, filepath, mode, output_path, backup, svc,
                            ed.n + 1)
          IN  ed' = [n |-> ed.n + 1, files |-> r.files, pre |-> ed.files,
                     last |-> [op |-> "edit_file",
                               content |-> IF filepath \in DOMAIN ed.files
                                           THEN ed.files[filepath] ELSE None,
                               mode |-> mode, filepath |-> filepath,
                               output_path |-> output_path, backup |-> backup,
                               calls |-> r.calls, raised |-> r.raised,
                               out |-> r.out, writes |-> r.writes]]
    /\ UNCHANGED <<sessionVars, loopVars, tp, trVars, other>>

InitEd ==
    /\ InitSessionVars /\ LoopIdle /\ TPIdle
    /\ tr = [recorder |-> FALSE, pc |-> "off"] /\ eng = [utt |-> 0]
    /\ shown = <<>> /\ other = NoSession
    /\ InitEditor

NextEd == EdEdit \/ EdEditFile

SpecEd == InitEd /\ [][NextEd]_vars

-----------------------------------------------------------------------------
(* Reading the state *)

SessionFile == fs[session.filepath]

Count(content, k) == Cardinality({i \in 1..Len(content) : content[i].k = k})

\* the entry blocks of a file, in file order
EntryBlocks(content) ==
    LET blocks == SelectSeq(content, LAMBDA l : l.k = "entry")
    IN  [i \in 1..Len(blocks) |-> <<blocks[i].tm, blocks[i].t>>]

\* the entries in memory, in order
MemoryEntries(s) ==
    [i \in 1..Len(s.transcriptions) |->
        <<s.transcriptions[i].time, s.transcriptions[i].cleaned>>]

IsPrefix(a, b) == Len(a) <= Len(b) /\ SubSeq(b, 1, Len(a)) = a

RenameFailed == \E i \in DOMAIN addLog : addLog[i].renameFailed

-----------------------------------------------------------------------------
(* Claims on the session document *)

\* C1: once finalize has completed on a document with at least one entry,
\* every later add_transcription call is rejected with InvalidState and
\* changes neither the entries in memory nor the file.
C1_AddAfterFinalizeRejected ==
    (last.op = "add" /\ last.pre.finalized) =>
        /\ last.raised = "InvalidState"
        /\ session.transcriptions = last.pre.s.transcriptions
        /\ fs = last.pre.fs

\* C2: over any sequence of calls the "Organized Summary" section and its
\* footer are in the file at most once, and exactly once after a finalize
\* that found entries.
C2_SummaryAppendedOnce ==
    /\ \A p \in DOMAIN fs :
          Count(fs[p], "sumhdr") <= 1 /\ Count(fs[p], "footer") <= 1
    /\ finalized =>
          Count(SessionFile, "sumhdr") = 1 /\ Count(SessionFile, "footer") = 1

\* C3: after every add_transcription call, returned or raised, the entry
\* blocks of the backing file are the entries in memory, in the same order.
C3_FileMatchesMemory ==
    last.op = "add" =>
        /\ session.filepath \in DOMAIN fs
        /\ EntryBlocks(SessionFile) = MemoryEntries(session)

\* C7: title inference is invoked by the first add_transcription call only:
\* once when that call has appended its entry, whether or not the inference
\* succeeds, and by no later call.
C7_TitleInferredOnce ==
    /\ \A i \in DOMAIN addLog : addLog[i].inferred > 0 => i = 1
    /\ \A i \in DOMAIN addLog : addLog[i].inferred <= 1
    /\ (addLog # <<>> /\ addLog[1].raised = "none") => addLog[1].inferred = 1
    /\ Cardinality({i \in DOMAIN svcLog : svcLog[i].kind = "title"}) <= 1

C7_Witness ==
    /\ Len(addLog) >= 2
    /\ addLog[1].svcFailed
    /\ addLog[2].raised = "none"
    /\ Len(session.transcriptions) = 2

\* C8: when the completion service fails during the title inference of the
\* first add_transcription, the call returns normally with the entry
\* appended, the title stays "Untitled Session", the header line of the file
\* is unchanged and the file keeps its path.
C8_TitleFailureSwallowed ==
    (last.op = "add" /\ last.svcFailed) =>
        /\ last.raised = "none"
        /\ Len(session.transcriptions) = Len(last.pre.s.transcriptions) + 1
        /\ EntryBlocks(SessionFile) = MemoryEntries(session)
        /\ session.title = UntitledSession
        /\ SessionFile[1] = Line("hash", 0, UntitledSession)
        /\ SessionFile[1] = last.pre.fs[last.pre.s.filepath][1]
        /\ session.filepath = last.pre.s.filepath
        /\ DOMAIN fs = DOMAIN last.pre.fs

C8_Witness ==
    /\ last.op = "add" /\ last.svcFailed /\ last.raised = "none"
    /\ Len(session.transcriptions) = 1

\* C9: when os.rename fails during the title update, the document keeps its
\* previous path, and every later add_transcription and finalize (that meets
\* no I/O fault of its own) returns normally having appended to the file at
\* that path.
C9_RenameFailureKeepsPath ==
    RenameFailed =>
        /\ session.filepath = last.pre.s.filepath
        /\ session.filepath \in DOMAIN fs
        /\ last.raised = "none" \/ last.appendFault
        /\ (~last.renameFailed /\ ~last.appendFault) =>
              /\ DOMAIN fs = DOMAIN last.pre.fs
              /\ IsPrefix(last.pre.fs[session.filepath], SessionFile)
              /\ Len(SessionFile) > Len(last.pre.fs[session.filepath])

C9_Witness ==
    /\ RenameFailed
    /\ Len(addLog) >= 2 /\ addLog[2].raised = "none"
    /\ last.op = "finalize" /\ last.raised = "none"
    /\ session.filepath # Path(0, Take(ReplaceSpaces(Sanitize(session.title)), SafeTitleMax))

\* C10: after a successful title update (the inference returned and the
\* rename succeeded) the file path differs from the provisional path
\* <timestamp>_session.md and the first line of the file is "# <new title>".
C10_TitleUpdateMovesFile ==
    (last.op = "add" /\ last.titleUpdated) =>
        /\ session.filepath # Path(session.session_start, ProvisionalName)
        /\ session.filepath \in DOMAIN fs
        /\ SessionFile[1] = Line("hash", 0, session.title)

\* C11: a failure to read or rewrite the file header during the title update
\* of the first add_transcription is raised out of add_transcription.
C11_HeaderFailurePropagates ==
    (last.op = "add" /\ last.hdrFailed) => last.raised = "IOError"

\* what the last call appended to the session file, without the empty lines
Written ==
    LET before == last.pre.fs[last.pre.s.filepath]
    IN  SelectSeq(SubSeq(SessionFile, Len(before) + 1, Len(SessionFile)),
                  LAMBDA l : l.k # "blank")

\* the blocks from position i on are the entries' cleaned texts, in order
CleanedAt(blocks, i) ==
    \A j \in 1..Len(session.transcriptions) :
        blocks[i + j - 1] = Line("body", 0, session.transcriptions[j].cleaned)

\* C12: finalize(organize=True) on a document with entries, with the
\* completion service failing, does not raise: it writes the summary section
\* header, the failure marker followed by every entry's cleaned text in
\* order, and the closing footer.
C12_OrganizeFailureFallsBack ==
    (last.op = "finalize" /\ last.organize /\ last.svcFailed) =>
        LET n == Len(session.transcriptions)
        IN  /\ last.raised = "none"
            /\ session = last.pre.s
            /\ IsPrefix(last.pre.fs[session.filepath], SessionFile)
            /\ Len(Written) = n + 5
            /\ Written[1].k = "sep" /\ Written[2].k = "sumhdr"
            /\ Written[3].k = "failed"
            /\ CleanedAt(Written, 4)
            /\ Written[n + 4].k = "sep" /\ Written[n + 5].k = "footer"

C12_Witness ==
    /\ last.op = "finalize" /\ last.organize /\ last.svcFailed
    /\ Len(session.transcriptions) >= 2
    /\ session.transcriptions[1].cleaned # session.transcriptions[2].cleaned

\* C13: finalize(organize=False) on a document with entries e1..en writes,
\* after the summary section header, the cleaned texts of e1..en in append
\* order, each once, then the closing footer, and calls no completion
\* service.
C13_RawFinalizeWritesEntries ==
    (last.op = "finalize" /\ ~last.organize /\ ~last.appendFault
        /\ last.pre.s.transcriptions # <<>>) =>
        LET n == Len(session.transcriptions)
        IN  /\ last.raised = "none"
            /\ session = last.pre.s
            /\ IsPrefix(last.pre.fs[session.filepath], SessionFile)
            /\ Len(Written) = n + 4
            /\ Written[1].k = "sep" /\ Written[2].k = "sumhdr"
            /\ CleanedAt(Written, 3)
            /\ Written[n + 3].k = "sep" /\ Written[n + 4].k = "footer"
            /\ last.nSvc = 0

C13_Witness ==
    /\ last.op = "finalize" /\ ~last.organize /\ last.raised = "none"
    /\ Len(session.transcriptions) >= 2
    /\ session.transcriptions[1].cleaned # session.transcriptions[2].cleaned
    /\ session.transcriptions[1].cleaned # session.transcriptions[1].raw

\* C14: finalize on a document with no entries, for either value of
\* organize, returns without error, leaves every file as it is (no summary
\* section, no footer) and calls no completion service.
C14_EmptyFinalizeIsNoOp ==
    (last.op = "finalize" /\ last.pre.s.transcriptions = <<>>) =>
        /\ last.raised = "none"
        /\ fs = last.pre.fs
        /\ session = last.pre.s
        /\ last.nSvc = 0
        /\ Count(SessionFile, "sumhdr") = 0 /\ Count(SessionFile, "footer") = 0

C14_Witness ==
    /\ last.op = "finalize" /\ last.pre.s.transcriptions = <<>>
    /\ last.organize /\ nFinalize = 2

\* the lines of a file that are not part of its title
NonTitle(content) == SelectSeq(content, LAMBDA l : l.k \notin {"hash", "text"})

C25_TitleAndNameSanitized ==
    LET name == session.filepath[2]
    IN  /\ Len(session.title) <= TitleMax
        /\ \A i \in 1..Len(session.title) :
              session.title[i] \in WordChars \cup {" ", "-"}
        /\ Len(name) <= SafeTitleMax
        /\ \A i \in 1..Len(name) : name[i] \in WordChars \cup {"_", "-"}

\* C29: in the first add_transcription the entry is in memory and its block
\* in the file before the title is inferred, so whatever the title step does
\* (title written and file renamed, completion service failed, rename
\* failed) the first entry is the one entry in memory and the one entry
\* block of the session file afterwards.
C29_FirstEntrySurvivesTitleStep ==
    (last.op = "add" /\ last.titleRan
        /\ (last.titleUpdated \/ last.svcFailed \/ last.renameFailed)) =>
        /\ last.raised = "none"
        /\ last.pre.s.transcriptions = <<>>
        /\ Len(session.transcriptions) = 1
        /\ session.filepath \in DOMAIN fs
        /\ EntryBlocks(SessionFile) = MemoryEntries(session)

C29_Witness ==
    /\ last.op = "add" /\ last.titleRan /\ last.renameFailed
    /\ SessionFile[1].t # UntitledSession
    /\ Count(SessionFile, "entry") = 1

\* C20: two session documents that exist at the same time never share
\* a backing file path.
C20_SessionsOwnTheirFiles ==
    other # NoSession => other.filepath # session.filepath

-----------------------------------------------------------------------------
(* Claims on the document editor *)

\* the content is empty or made of whitespace only
IsBlankContent(content) ==
    content # None /\ \A i \in 1..Len(content) : content[i] \in Whitespace

\* C22: empty or whitespace-only input makes no completion-service call,
\* for edit on a string and for edit_file on a file, and edit_file then
\* writes neither a backup nor an output file.
C22_BlankInputShortCircuits ==
    (ed.last.op # "none" /\ IsBlankContent(ed.last.content)) =>
        /\ ed.last.calls = 0
        /\ ed.last.writes = <<>> /\ ed.files = ed.pre

\* the last edit_file call wrote the file at the original path at position i
\* of its writes
Overwrites(i) == ed.last.writes[i].path = ed.last.filepath

\* C23: whenever edit_file with backup enabled overwrites the file at the
\* original path, a backup holding exactly the content read was written
\* earlier in the call, for every output_path; and when the completion
\* service fails the original file is unchanged.
C23_BackupBeforeOverwrite ==
    (ed.last.op = "edit_file" /\ ed.last.backup) =>
        /\ \A i \in 1..Len(ed.last.writes) :
              Overwrites(i) =>
                \E j \in 1..(i - 1) :
                    ed.last.writes[j] =
                        FileWrite(BackupPath(ed.last.filepath), ed.last.content)
        /\ ed.last.raised = "ServiceError" =>
              ed.files[ed.last.filepath] = ed.pre[ed.last.filepath]

-----------------------------------------------------------------------------
(* Claims on the prompt pipeline *)

\* C5: with a deterministic completion service, the concatenation of the
\* chunks process_stream yields equals what process returns, for every text,
\* mode and completion.
C5_StreamEqualsProcess ==
    tp.phase = "streamed" => Concat(tp.yielded) = tp.result

\* both calls of the pipeline have run on a mode that is raw or has no entry
\* in the template table
BypassRun ==
    /\ tp.phase = "streamed"
    /\ tp.mode = "raw" \/ tp.mode \notin DOMAIN Prompts

\* C15 as stated: for mode raw and every mode absent from the template
\* table, and every input text, process returns the trimmed input with no
\* service call, and process_stream yields that trimmed input as its only
\* chunk with no service call.
C15_BypassYieldsOneChunk ==
    BypassRun =>
        /\ tp.result = Strip(tp.text) /\ tp.calls = 0
        /\ tp.yielded = <<Strip(tp.text)>> /\ tp.scalls = 0

\* C15, amended: for mode raw and every mode absent from the template table,
\* process returns the trimmed input with no service call; process_stream
\* makes no service call and yields the trimmed input as its only chunk when
\* the trimmed input is not empty, and no chunk when it is empty.
C15_BypassReturnsTrimmed ==
    BypassRun =>
        /\ tp.result = Strip(tp.text) /\ tp.calls = 0
        /\ tp.scalls = 0
        /\ tp.yielded = IF Strip(tp.text) = <<>> THEN <<>> ELSE <<Strip(tp.text)>>

C15_Witness ==
    /\ BypassRun /\ tp.mode # "raw"
    /\ tp.result # tp.text /\ tp.yielded = <<tp.result>>

\* the text is empty or made of whitespace only
IsBlank(text) == \A i \in 1..Len(text) : text[i] \in Whitespace

\* C16: for empty or whitespace-only text and every mode, process returns
\* the empty string, process_stream yields no chunk, and neither calls the
\* completion service.
C16_BlankTextYieldsNothing ==
    (tp.phase = "streamed" /\ IsBlank(tp.text)) =>
        /\ tp.result = <<>> /\ tp.calls = 0
        /\ tp.yielded = <<>> /\ tp.scalls = 0

C16_Witness ==
    /\ tp.phase = "streamed" /\ IsBlank(tp.text) /\ tp.text # <<>>
    /\ tp.mode = "clean"

-----------------------------------------------------------------------------
(* Claims on the dictation loop *)

\* C4: an engine runtime error from record() or a completion-service error
\* while the utterance is processed does not end the while loop: the loop is
\* never left with such an error.
C4_CycleErrorContinues ==
    pc \in {"finally", "done"} => exc \notin {"RuntimeError", "ServiceError"}

\* C17: when record() returns an empty string the cycle is a no-op: the
\* prompt pipeline is not entered, the session document and its file are left
\* as they are, the clipboard and the processed text are not set, and the
\* loop is back at waiting for the hotkey.
C17_EmptyRecordIsNoOp ==
    /\ [](pc \in {"process", "add", "copy"} => raw_text # <<>>)
    /\ [][(pc = "record" /\ pc' # "finally" /\ raw_text' = <<>>) =>
            /\ pc' = "wait"
            /\ UNCHANGED <<sessionVars, clipboard, processed_text>>]_vars

C17_Witness ==
    /\ pc = "wait" /\ cycles = 2 /\ raw_text = <<>>
    /\ clipboard # None /\ Len(session.transcriptions) = 1

\* C18: under any interleaving of the realtime thread's callbacks with the
\* record() calls, no partial is stored as the live text, and none is handed
\* to the display callback, after record() for its utterance has returned;
\* this covers the late callback of one utterance landing after the next
\* record() reset the live text.
C18_NoPartialAfterReturn ==
    /\ ~tr.src.late
    /\ \A i \in 1..Len(shown) : ~shown[i].late

\* C19: however often stop() is called after start(), the engine is shut
\* down once: a second or later stop() does not reach the engine. stop()
\* before start() does nothing.
C19_StopIdempotent ==
    eng.shutdowns <= 1

\* C24: in the dictation loop add_transcription is never called on the
\* session after finalize has been called on it, and finalize is called at
\* most once per run, on every path through the loop, interrupt and error
\* exits included.
C24_LoopFinalizesOnceAtEnd ==
    /\ nFinalize <= 1
    /\ nFinalize = 1 =>
          /\ last.op = "finalize"
          /\ pc \in {"finally", "done"}
          /\ Len(addLog) = Len(last.pre.s.transcriptions)

C24_Witness ==
    /\ pc = "done" /\ exc = "RuntimeError" /\ nFinalize = 1
    /\ Len(addLog) >= 1 /\ cycles = 2

\* C26: in every cycle with a session document and clipboard copy enabled,
\* the cleaned text of the entry appended in that cycle equals the text put
\* on the clipboard in that cycle, whatever the pipeline produced.
C26_EntryEqualsClipboard ==
    (pc = "wait" /\ raw_text # <<>> /\ ~cfg.no_session /\ ~cfg.no_copy) =>
        clipboard =
            session.transcriptions[Len(session.transcriptions)].cleaned

\* C27: on every exit path of the loop (interrupt, an error raised in the
\* loop, an error raised by finalize) stop() is called on the transcriber:
\* main() does not end without it.
C27_StopAlwaysCalled ==
    pc = "done" => \E i \in 1..Len(events) : events[i] = "stop"

\* C28: with a session document present, every non-empty utterance that
\* record() returned is an entry of the session when finalize runs, also
\* when the interrupt arrives while the utterance is being processed.
C28_NoUtteranceLost ==
    (~cfg.no_session /\ last.op = "finalize") =>
        Len(last.pre.s.transcriptions) = recorded

\* C6: with a session document present, stop() is called on the transcriber
\* only after finalize(organize=True) was called on the session and has
\* returned; on interrupt the finally block calls finalize first.
C6_FinalizeBeforeStop ==
    ~cfg.no_session =>
        /\ \A i \in DOMAIN events :
              events[i] = "stop" =>
                  /\ i = 3
                  /\ events[1] = "finalize called"
                  /\ events[2] = "finalize returned"
                  /\ nFinalize = 1 /\ last.op = "finalize" /\ last.organize
        /\ (pc = "done" /\ exc = "KeyboardInterrupt") =>
              /\ events # <<>> /\ events[1] = "finalize called"
              /\ nFinalize = 1 /\ last.op = "finalize" /\ last.organize

C6_Witness ==
    /\ ~cfg.no_session /\ pc = "done" /\ exc = "KeyboardInterrupt"
    /\ events = <<"finalize called", "finalize returned", "stop">>
    /\ Len(session.transcriptions) >= 1

====
